---------------------------- MODULE Spec2Model ----------------------------
(***************************************************************************)
(* Sidekick hooks of edwinow/dotfiles: the PostToolUse trigger gate        *)
(* (hooks/sidekick-counter.py), the background review workers              *)
(* (hooks/sidekick-review-worker.py, -enhanced.py, sidekick-memory-        *)
(* advanced.py) and the PreToolUse nudge delivery (hooks/sidekick-nudge.py)*)
(* modelled as processes that share one per-project state directory        *)
(* (state.json, memory.json, pending_feedback.json).                       *)
(*                                                                         *)
(* Time is an integer clock; every time.time() / now_iso() call reads it.  *)
(* A process may be killed between any two of its steps.                   *)
(***************************************************************************)
EXTENDS Integers, Sequences, FiniteSets, TLC

\* ------------------------------------------------------------------ bounds
\* Number of hook invocations explored per project.
MaxEvents == 4
\* The clock starts at StartClock and is advanced up to MaxClock.
StartClock == 3
MaxClock == 5
\* Number of transcript events appended by the host.
MaxTranscript == 3
\* Number of transcript events while two passes overlap.
MaxOverlapTranscript == 2
\* Number of hook invocations explored under hostile inputs.
MaxInputEvents == 2
\* largest value of MAX_LINES_TOTAL set through the environment
MaxLineCap == 7
\* largest value of MAX_EVENTS set through the environment
MaxEventCap == 2
\* hex digits of the digest that proj_slug keeps (12 in the scripts)
SlugLen == 4
\* Caps of the bounded memory lists, scaled down: key_decisions (50),
\* feature_lifecycle lists (20), technical_decisions (30), ai_insights (20).
KEY_DECISIONS_CAP == 3
FEATURE_CAP == 2
TECHNICAL_CAP == 3
INSIGHTS_CAP == 2
\* NUDGE_TTL (SIDEKICK_NUDGE_TTL_SECONDS, default 900) scaled to the model clock.
NUDGE_TTL == 1
\* Scaled caps of the rich memory: recent (1500 characters), rolling (3000),
\* historical (2000), a key line (150), the key points of one extraction (5).
SUMMARY_MAX == 5
ROLLING_MAX == 10
HISTORICAL_MAX == 7
KEY_LINE_MAX == 3
MAX_POINTS == 2
\* Merges followed per memory file, and the largest weekly commit count.
MaxSessions == 6
\* Hook runs followed when two of them overlap.
MaxRaceRuns == 3
MaxCommits == 22

\* Hook processes of the sequential specification (one callback at a time).
SeqProcs == {1}
Procs == {1, 2}

\* --------------------------------------------------------------- variables
VARIABLES
    clock,        \* wall clock read by time.time()
    cwd,          \* the working directory the host reports in its events
    dirs,         \* the directories made under ~/.claude/sidekick, by name, other
                  \* than the one of cwd, whose files are the variables below
    interval,     \* INTERVAL   (SIDEKICK_INTERVAL, read once at import)
    cooldown,     \* COOLDOWN_S (SIDEKICK_COOLDOWN_SECONDS)
    workerScript, \* ~/.claude/hooks/sidekick-review-worker.py: installed | missing | unspawnable
    stateFile,    \* state.json: its shape, and [count, last_run] when it is an
                  \* object; an absent key reads as 0
    cpc,          \* position of each counter-hook process
    cloc,         \* locals of each counter-hook process
    launchLog,    \* history: one entry per subprocess.Popen that succeeded
    nCounted,     \* history: number of hook runs that executed line 69
    variant,      \* which worker script runs the pass: review | enhanced | advanced
    threshold,    \* THRESHOLD (SIDEKICK_THRESHOLD), in tenths
    max_lines_total, \* MAX_LINES_TOTAL (SIDEKICK_MAX_LINES_TOTAL)
    max_events,   \* MAX_EVENTS (SIDEKICK_MAX_EVENTS)
    transcript,   \* the session log: timestamps of its events, in append order
    memFile,      \* memory.json as json.loads reads it
    fs,           \* the bytes of memory.json (target) and memory.tmp (tmp)
    pendFile,     \* pending_feedback.json
    ppc,          \* position of each background pass
    ploc,         \* locals of each background pass
    npc,          \* position of each nudge-hook process
    lastEmit,     \* history: body hash of the latest pending record a pass wrote
    dupEmit,      \* history: some pending record repeated the hash of the one before it
    lastDelivery, \* history: what the latest nudge-hook run did
    printed,      \* history: the pending record now in place was printed by a hook run
    lastKill,     \* history: "window" once a pass was killed between its memory
                  \* save and the completion of its pending write
    rich,         \* memory.json of the advanced worker: the fields that
                  \* build_rich_memory maintains
    adv           \* locals of the latest advanced pass that merged

gateVars == <<cwd, dirs, interval, cooldown, workerScript, stateFile, cpc, cloc, launchLog, nCounted>>
passVars == <<rich, adv, variant, threshold, max_lines_total, max_events, transcript, memFile, fs, pendFile, ppc, ploc, lastEmit, dupEmit, lastKill>>
nudgeVars == <<npc, lastDelivery, printed>>
vars == <<clock, gateVars, passVars, nudgeVars>>

\* ------------------------------------------------------------ trigger gate
\* Configurations of the two environment variables, misconfigurations included.
Intervals == {-2, 0, 1, 2, 3}
Cooldowns == {-1, 0, 2}
WorkerScripts == {"installed", "missing", "unspawnable"}

\* Python's a % b for b # 0: the result has the sign of the divisor.
PyMod(a, b) == IF b > 0 THEN a % b ELSE -((-a) % (-b))

NoLocals == [now |-> 0, count |-> 0, last_run |-> 0, launched |-> FALSE, status |-> 0]

\* What the host writes to the hook's stdin: a JSON object (with or without a
\* "cwd" string), text that is not JSON, a JSON value that is not an object, an
\* object whose "cwd" is not a string.
EventShapes == {"object", "invalid", "nonobject", "badcwd"}
WellFormed == "object"

\* The contents of state.json: absent, an object, text that is not JSON (the
\* empty file included), a JSON value that is not an object, an object whose
\* count or last_run cannot be converted by int() / float().
NoState == [shape |-> "absent", count |-> 0, last_run |-> 0]
StateContents ==
    {[NoState EXCEPT !.shape = sh] : sh \in {"absent", "invalid", "nonobject", "badcount", "badlast"}}
        \cup {[shape |-> "object", count |-> 1, last_run |-> 0]}

\* load_state: an absent or unparseable state.json is {}; s.get(k, 0).
load_state == IF stateFile.shape \in {"absent", "invalid"} THEN NoState ELSE stateFile

\* A gate the code does not have: an opportunity that the cooldown refused is
\* kept and taken by the first event after the cooldown.
ShouldLaunchDeferred(count, now, last_run) ==
    (count >= interval) /\ (now - last_run >= cooldown)

ShouldLaunchNoCooldown(count, now, last_run) == PyMod(count, interval) = 0

\* line 71 (evaluated only when INTERVAL # 0; INTERVAL = 0 raises ZeroDivisionError)
ShouldLaunch(count, now, last_run) ==
    (PyMod(count, interval) = 0) /\ (now - last_run >= cooldown)

GateInit ==
    /\ interval \in Intervals
    /\ cooldown \in Cooldowns
    /\ workerScript \in WorkerScripts
    /\ stateFile = NoState
    /\ cpc = [h \in Procs |-> "idle"]
    /\ cloc = [h \in Procs |-> NoLocals]
    /\ launchLog = <<>>
    /\ nCounted = 0

\* lines 56-68: read the event e, now = time.time(), load the state, count + 1.
\* event.get (line 57), cwd.encode (line 16), s.get (line 66), int() (line 66)
\* and float() (line 67) are outside every try: what they raise ends the hook
\* with a traceback and exit status 1.
HookLoad(h, e) ==
    /\ cpc[h] \in {"idle", "done"}
    /\ stateFile.count < MaxEvents
    /\ IF \/ e \in {"nonobject", "badcwd"}
          \/ stateFile.shape \in {"nonobject", "badcount", "badlast"}
       THEN /\ cloc' = [cloc EXCEPT ![h] = [NoLocals EXCEPT !.now = clock, !.status = 1]]
            /\ cpc' = [cpc EXCEPT ![h] = "done"]
       ELSE /\ LET s == load_state IN
               cloc' = [cloc EXCEPT ![h] = [now |-> clock, count |-> s.count + 1,
                                            last_run |-> s.last_run, launched |-> FALSE,
                                            status |-> 0]]
            /\ cpc' = [cpc EXCEPT ![h] = "loaded"]
    /\ UNCHANGED <<passVars, nudgeVars>>
    /\ UNCHANGED <<clock, cwd, dirs, interval, cooldown, workerScript, stateFile, launchLog, nCounted>>

\* line 69: save_state(s) with s["count"] = count (s keeps the last_run it loaded).
HookCount(h) ==
    /\ cpc[h] = "loaded"
    /\ stateFile' = [shape |-> "object", count |-> cloc[h].count, last_run |-> cloc[h].last_run]
    /\ nCounted' = nCounted + 1
    /\ cpc' = [cpc EXCEPT ![h] = "counted"]
    /\ UNCHANGED <<passVars, nudgeVars>>
    /\ UNCHANGED <<clock, cwd, dirs, interval, cooldown, workerScript, cloc, launchLog>>

\* lines 71-90: the launch decision and the spawn.
HookDecide(h) ==
    /\ cpc[h] = "counted"
    /\ LET l == cloc[h] IN
       IF interval = 0
       THEN \* ZeroDivisionError escapes main: traceback, exit status 1
            /\ cpc' = [cpc EXCEPT ![h] = "done"]
            /\ cloc' = [cloc EXCEPT ![h].status = 1]
            /\ UNCHANGED launchLog
       ELSE IF ShouldLaunch(l.count, l.now, l.last_run) /\ workerScript = "installed"
       THEN \* Popen succeeded; last_run is not yet saved
            /\ cpc' = [cpc EXCEPT ![h] = "spawned"]
            /\ cloc' = [cloc EXCEPT ![h].launched = TRUE]
            /\ launchLog' = Append(launchLog, [at |-> l.now, count |-> l.count])
       ELSE \* no launch, worker.exists() false, or Popen raised: sys.exit(0)
            /\ cpc' = [cpc EXCEPT ![h] = "done"]
            /\ UNCHANGED <<cloc, launchLog>>
    /\ UNCHANGED <<passVars, nudgeVars>>
    /\ UNCHANGED <<clock, cwd, dirs, interval, cooldown, workerScript, stateFile, nCounted>>

\* lines 91-97: s["last_run"] = now; save_state(s); sys.exit(0)
HookRecord(h) ==
    /\ cpc[h] = "spawned"
    /\ stateFile' = [shape |-> "object", count |-> cloc[h].count, last_run |-> cloc[h].now]
    /\ cpc' = [cpc EXCEPT ![h] = "done"]
    /\ UNCHANGED <<passVars, nudgeVars>>
    /\ UNCHANGED <<clock, cwd, dirs, interval, cooldown, workerScript, cloc, launchLog, nCounted>>

\* The hook process is killed between two steps.
HookKill(h) ==
    /\ cpc[h] \in {"loaded", "counted", "spawned"}
    /\ cpc' = [cpc EXCEPT ![h] = "idle"]
    /\ cloc' = [cloc EXCEPT ![h] = NoLocals]
    /\ UNCHANGED <<passVars, nudgeVars>>
    /\ UNCHANGED <<clock, cwd, dirs, interval, cooldown, workerScript, stateFile, launchLog, nCounted>>

\* --------------------------------------------------------- background pass
Variants == {"review", "enhanced", "advanced"}
\* THRESHOLD in tenths: each script's default (review line 35: 0.2, enhanced
\* line 37: 0, advanced line 38: 0).
DefaultThreshold(w) == IF w = "review" THEN 2 ELSE 0
\* Verdict fields returned by the reasoning service.
Scores == {-1, 0, 2}
Bodies == {"", "a ", "b"}
Reason == "why"

\* str.strip() on the modelled bodies.
Strip(b) == CASE b = " " -> "" [] b = "a " -> "a" [] OTHER -> b

\* hashlib.sha256(nudge).hexdigest(): distinct texts have distinct digests.
Sha256(b) == CASE b = "a" -> "sha_a" [] b = "b" -> "sha_b" [] b = "a " -> "sha_a_sp"
               [] b = " " -> "sha_sp" [] OTHER -> "sha_empty"
NoHash == "none"

\* line 287: nudge_hash = sha256(nudge) if nudge else ""
NudgeHash(nudge) == IF nudge # "" THEN Sha256(nudge) ELSE ""

\* The bounded lists of memory.json. An entry is represented by its append
\* number in its list; n counts the entries ever appended to the list.
ListNames == {"key_decisions", "active_features", "removed_features",
              "struggling_features", "technical_decisions", "ai_insights"}
NoLists == [name \in ListNames |-> [items |-> <<>>, n |-> 0]]

\* list.append, k times
AppendN(l, k) == [items |-> l.items \o [i \in 1..k |-> l.n + i], n |-> l.n + k]
\* list[-cap:]
Capped(l, cap) ==
    IF Len(l.items) <= cap THEN l
    ELSE [l EXCEPT !.items = SubSeq(l.items, Len(l.items) - cap + 1, Len(l.items))]

\* What read_messages_since extracted from the new events besides the messages:
\* decisions (enhanced: key_decisions of line 141; advanced: the messages that
\* lines 447-455 take for technical decisions), feature additions and removals,
\* files edited more than five times.
NoFindings == [decisions |-> 0, additions |-> 0, removals |-> 0, struggles |-> 0]
Findings == [decisions : {0, 2}, additions : 0..1, removals : 0..1, struggles : 0..1]

\* enhanced line 303; advanced build_rich_memory lines 402-457.
MergeFindings(lists, f) ==
    IF variant = "enhanced"
    THEN [lists EXCEPT !.key_decisions = Capped(AppendN(@, f.decisions), KEY_DECISIONS_CAP)]
    ELSE IF variant = "advanced"
    THEN [lists EXCEPT
            !.active_features = Capped(AppendN(@, f.additions), FEATURE_CAP),
            !.removed_features = Capped(AppendN(@, f.removals), FEATURE_CAP),
            !.struggling_features = Capped(AppendN(@, f.struggles), FEATURE_CAP),
            !.technical_decisions = Capped(AppendN(@, f.decisions), TECHNICAL_CAP)]
    ELSE lists

\* enhanced lines 358-364; advanced main lines 683-700 (the rollback features
\* are appended to struggling_features after the cap of line 440 was applied).
MergeVerdict(lists, v) ==
    IF variant = "enhanced"
    THEN [lists EXCEPT !.key_decisions = Capped(AppendN(@, v.key_decisions), KEY_DECISIONS_CAP)]
    ELSE IF variant = "advanced"
    THEN [lists EXCEPT
            !.ai_insights = Capped(AppendN(@, v.insights), INSIGHTS_CAP),
            !.struggling_features = AppendN(@, v.rollback)]
    ELSE lists

DefaultMemory == [state |-> "absent", last_timestamp |-> 0, last_nudge_hash |-> "",
                  lists |-> NoLists]
\* pending_feedback.json; its commands and score fields are written and never read.
NoPending == [state |-> "absent", created_at |-> 0, ttl |-> 0, body |-> "", reason |-> ""]
PartialPending == [NoPending EXCEPT !.state = "partial"]
PartialMemory == [DefaultMemory EXCEPT !.state = "partial"]
\* memory.json holding valid JSON that is not an object (an array, a number, a
\* string, null).
NonObjectMemory == [DefaultMemory EXCEPT !.state = "nonobject"]
\* The contents of memory.json a pass may find.
MemoryContents ==
    {DefaultMemory, PartialMemory, NonObjectMemory,
     [DefaultMemory EXCEPT !.state = "ok", !.last_timestamp = StartClock]}
NoVerdict == [should |-> FALSE, score |-> 0, body |-> "", reason |-> "",
              key_decisions |-> 0, insights |-> 0, rollback |-> 0]
\* calls: how many times this pass has called the reasoning service.
\* fd: the file the pass holds open for writing, by the name its inode has now.
\* sanitized: the text handed to the reasoning service, as its lines.
NoPassLocals == [mem |-> DefaultMemory, last_ts |-> 0, verdict |-> NoVerdict, created |-> 0,
                 calls |-> 0, fd |-> "none", sanitized |-> <<>>]

\* load_json(path, default): the default for an absent or unparseable file;
\* whatever json.loads returns otherwise.
load_json(file, default) == IF file.state \in {"ok", "nonobject"} THEN file ELSE default

\* json.dumps(obj, indent=2): the text of a memory record, as a sequence of
\* cells. Its length depends on the record: last_nudge_hash is "" or 64
\* hexadecimal digits (the other fields that vary in length are not modelled).
Size(rec) == IF rec.last_nudge_hash = "" THEN 1 ELSE 2
Dumps(rec) == [i \in 1..Size(rec) |-> [rec |-> [rec EXCEPT !.state = "ok"], i |-> i]]

\* A file name of the state directory: whether it exists, and the bytes of the
\* inode it names.
NoFile == [exists |-> FALSE, bytes |-> <<>>]
EmptyFile == [exists |-> TRUE, bytes |-> <<>>]

\* json.loads(path.read_text()) inside load_json: the record whose text the
\* bytes are; any other content (empty, cut short, the text of one record
\* followed by the rest of another) does not parse.
Loads(f) ==
    IF ~f.exists THEN DefaultMemory
    ELSE IF f.bytes # <<>> /\ f.bytes = Dumps(f.bytes[1].rec) THEN f.bytes[1].rec
    ELSE PartialMemory

\* The bytes on disk when memory.json reads as file and no save is under way;
\* overlap and savers record which passes began a save_json of the memory
\* while another pass was running.
OnDisk(file) ==
    [target |-> IF file.state = "absent" THEN NoFile
                ELSE IF file.state = "ok" THEN [exists |-> TRUE, bytes |-> Dumps(file)]
                ELSE EmptyFile,
     tmp |-> NoFile, overlap |-> FALSE, savers |-> {}]

\* save_json of the review worker writes path.tmp and renames it over the target;
\* the enhanced and advanced workers open the target itself for writing.
AtomicSave == variant = "review"

\* The target file between the start of save_json and its end.
InPlaceDuringSave(file, partial) == partial
DuringSave(file, partial) == IF AtomicSave THEN file ELSE partial

\* read_messages_since: the events of the transcript that pass the filter of
\* line 76 (0 stands for an empty timestamp or a None watermark).
Newer(last_ts) == SelectSeq(transcript, LAMBDA ts : ~(last_ts # 0 /\ ts # 0 /\ ts <= last_ts))

\* MAX_EVENTS and MAX_LINES_TOTAL as the worker scripts default them (review
\* lines 32-33, enhanced lines 34-35; the advanced worker has no sanitizer).
DefaultMaxEvents(w) == IF w = "review" THEN 60 ELSE 100
DefaultMaxLines(w) == IF w = "review" THEN 1200 ELSE IF w = "enhanced" THEN 2000 ELSE 1500

\* Python slices: s[:k] and s[-k:] (s[-0:] is s[0:], the whole list).
SliceTo(s, k) ==
    LET n == Len(s)
        e == IF k >= 0 THEN (IF k < n THEN k ELSE n) ELSE (IF n + k > 0 THEN n + k ELSE 0)
    IN SubSeq(s, 1, e)
LastN(s, k) ==
    IF k > 0 THEN SubSeq(s, (IF Len(s) > k THEN Len(s) - k + 1 ELSE 1), Len(s))
    ELSE SubSeq(s, 1 - k, Len(s))

\* ---- the rich memory of the advanced worker (sidekick-memory-advanced.py)
\* Texts are sequences of tokens: "e" is text that holds one of the keywords
\* of extract_key_points, "u" is text that holds none, "\n" ends a line.  The
\* caps of the script are scaled: 1500, 3000 and 2000 characters, 150
\* characters of a key line, 5 key points.

\* advanced lines 429-430: a file counts as struggling when the new messages
\* hold more than five Edit or MultiEdit uses that name it.
Struggles(edit_count) == IF edit_count > 5 THEN 1 ELSE 0

\* advanced lines 255-257: the joined parts, cut to max_chars with an ellipsis.
summarize_messagesNoRoom(summary, max_chars) ==
    IF Len(summary) > max_chars
    THEN SliceTo(summary, max_chars) \o <<".", ".", ".">>
    ELSE summary
summarize_messages(summary, max_chars) ==
    IF Len(summary) > max_chars
    THEN SliceTo(summary, max_chars - 3) \o <<".", ".", ".">>
    ELSE summary

\* text.split('\n') and "\n".join(lines).
RECURSIVE Split(_)
Split(text) ==
    IF \A i \in DOMAIN text : text[i] # "\n" THEN <<text>>
    ELSE LET i == CHOOSE k \in DOMAIN text :
                      text[k] = "\n" /\ \A j \in 1..(k - 1) : text[j] # "\n"
         IN <<SubSeq(text, 1, i - 1)>> \o Split(SubSeq(text, i + 1, Len(text)))
RECURSIVE Join(_)
Join(lines) ==
    IF lines = <<>> THEN <<>>
    ELSE IF Len(lines) = 1 THEN lines[1]
    ELSE lines[1] \o <<"\n">> \o Join(Tail(lines))

\* advanced lines 500-514: the first max_points lines that hold a keyword,
\* each cut to its first 150 characters.
HasKeyword(line) == \E i \in DOMAIN line : line[i] = "e"
RECURSIVE KeyLines(_, _)
KeyLines(lines, found) ==
    IF lines = <<>> \/ found >= MAX_POINTS THEN <<>>
    ELSE IF HasKeyword(lines[1])
         THEN <<SliceTo(lines[1], KEY_LINE_MAX)>> \o KeyLines(Tail(lines), found + 1)
         ELSE KeyLines(Tail(lines), found)
extract_key_points(text) == Join(KeyLines(Split(text), 0))

\* advanced lines 59-65 and 66-126: the four git probes run in one try block;
\* a probe that exits with a non-zero code leaves its fields alone, a probe
\* that raises (git missing, timeout after 2 s, unreadable count) ends the
\* function with what was filled so far.
ProbeOutcomes == {"ok", "nonzero", "raise"}
DefaultGitInfo == [branch |-> "unknown", recent_commits |-> <<>>, uncommitted_changes |-> 0,
                   last_commit_message |-> "", commit_frequency |-> "unknown"]
FrequencyInclusive(count) ==
    IF count >= 20 THEN "very active"
    ELSE IF count >= 10 THEN "active"
    ELSE IF count >= 3 THEN "moderate"
    ELSE "low"
Frequency(count) ==
    IF count > 20 THEN "very active"
    ELSE IF count > 10 THEN "active"
    ELSE IF count > 3 THEN "moderate"
    ELSE "low"
Ran(probes, i) == probes[i] = "ok" /\ \A j \in 1..(i - 1) : probes[j] # "raise"
get_git_context(probes, commits, changes, count) ==
    [branch |-> IF Ran(probes, 1) THEN "main" ELSE DefaultGitInfo.branch,
     recent_commits |-> IF Ran(probes, 2) THEN commits ELSE DefaultGitInfo.recent_commits,
     last_commit_message |-> IF Ran(probes, 2) /\ commits # <<>> THEN commits[1]
                             ELSE DefaultGitInfo.last_commit_message,
     uncommitted_changes |-> IF Ran(probes, 3) THEN changes
                             ELSE DefaultGitInfo.uncommitted_changes,
     commit_frequency |-> IF Ran(probes, 4) THEN Frequency(count)
                          ELSE DefaultGitInfo.commit_frequency]

\* advanced lines 594-606: the fields of a fresh memory that build_rich_memory
\* maintains.  An entry of struggling_features is "edit" when build_rich_memory
\* appended it (lines 431-436: file, edit_count, session, suggestion) and "ai"
\* when main appended it from the reply (lines 696-700: feature,
\* ai_suggested_rollback, session).
DefaultRich == [sessions |-> 0, recent |-> <<>>, rolling |-> <<>>, historical |-> <<>>,
                struggling_features |-> <<>>, recommendations |-> <<>>]
SessionTag(n) == <<"Session", ToString(n)>>

\* advanced lines 352-498.  The result is the memory the function returns, or
\* the KeyError of line 484, which reads latest_struggle['file'] and
\* latest_struggle['edit_count'] of an entry that main appended without them.
build_rich_memory(memory, summary, edit_count, git, has_tests) ==
    LET sessions == memory.sessions + 1
        new_summary == summarize_messages(summary, SUMMARY_MAX)
        rolling == SliceTo(SessionTag(sessions) \o new_summary \o <<"\n">> \o memory.rolling,
                           ROLLING_MAX)
        historical ==
            IF sessions % 5 = 0 /\ rolling # <<>>
            THEN SliceTo(extract_key_points(rolling) \o <<"\n">> \o memory.historical,
                         HISTORICAL_MAX)
            ELSE memory.historical
        struggling ==
            LastN(memory.struggling_features
                      \o (IF Struggles(edit_count) > 0 THEN <<"edit">> ELSE <<>>),
                  FEATURE_CAP)
        rollback == struggling # <<>> /\ git.recent_commits # <<>>
        testing == has_tests = FALSE /\ sessions > 5
        built == [sessions |-> sessions, recent |-> new_summary, rolling |-> rolling,
                  historical |-> historical, struggling_features |-> struggling,
                  recommendations |-> (IF rollback THEN <<"rollback">> ELSE <<>>)
                                          \o (IF testing THEN <<"testing">> ELSE <<>>)]
    IN IF rollback /\ struggling[Len(struggling)] = "ai"
       THEN [raised |-> "KeyError", memory |-> memory]
       ELSE [raised |-> "", memory |-> built]

\* The locals of the latest advanced pass: what get_git_context returned from
\* which probe outcomes, the digest of the new messages, what build_rich_memory
\* returned or raised.
NoAdvLocals == [probes |-> <<>>, count |-> 0, git_context |-> DefaultGitInfo,
                has_tests |-> FALSE, new_summary |-> <<>>, raised |-> "",
                memory |-> DefaultRich]
RichInit == rich = DefaultRich /\ adv = NoAdvLocals


\* enhanced lines 159-166: every 5th of the messages older than the last
\* MAX_EVENTS, the last 20 of these, then the last MAX_EVENTS messages.
MessagesToProcess(msgs) ==
    LET k == max_events
        older == IF Len(msgs) > k THEN SliceTo(msgs, 0 - k) ELSE <<>>
        fifth == [i \in 1..((Len(older) + 4) \div 5) |-> older[5 * (i - 1) + 1]]
    IN IF variant = "enhanced" THEN LastN(fifth, 20) \o LastN(msgs, k) ELSE LastN(msgs, k)

\* One message as the lines of its chunk "ROLE @ timestamp\ntext\n": every
\* message of the model carries one line of text.
Chunk(ts) == <<"ROLE @ " \o (IF ts = 0 THEN "" ELSE ToString(ts)), "text">>

\* The lines of the chunks joined by "\n" + "-"*60 + "\n": the newline that
\* ends a chunk and the one that starts the separator enclose an empty line.
RECURSIVE Assemble(_)
Assemble(msgs) ==
    IF msgs = <<>> THEN <<>>
    ELSE IF Len(msgs) = 1 THEN Chunk(msgs[1])
    ELSE Chunk(msgs[1]) \o <<"", "------------------------------------------------------------">>
         \o Assemble(Tail(msgs))

Marker(n) == "... [truncated " \o ToString(n) \o " lines]"

\* review lines 143-148, the global line cap: the first MAX_LINES_TOTAL lines
\* joined by "\n", then "\n" and the marker (the join of no line is the empty
\* string, which the "\n" before the marker makes an empty line).
LineCap(lines) ==
    IF Len(lines) > max_lines_total
    THEN (IF SliceTo(lines, max_lines_total) = <<>> THEN <<"">>
          ELSE SliceTo(lines, max_lines_total))
         \o <<Marker(Len(lines) - max_lines_total)>>
    ELSE lines

\* sanitize (review lines 117-148, enhanced lines 156-196).
Sanitize(msgs) == LineCap(Assemble(MessagesToProcess(msgs)))

\* The watermark the pass persists (review/enhanced: line 296, advanced: line 703).
NextWatermark(msgs, mem) ==
    LET ts == msgs[Len(msgs)] IN
    IF variant = "advanced" THEN ts
    ELSE IF ts # 0 THEN ts ELSE mem.last_timestamp

\* The nudge text the gate works on (review/enhanced strip it, line 282).
NudgeOf(v) == IF variant = "advanced" THEN v.body ELSE Strip(v.body)

\* A gate the code does not have: the score must exceed the threshold.
GateAboveThreshold(v, mem) ==
    IF variant = "advanced"
    THEN v.should /\ v.score > threshold
    ELSE /\ v.should
         /\ v.score > threshold
         /\ NudgeOf(v) # ""
         /\ NudgeHash(NudgeOf(v)) # mem.last_nudge_hash

\* The gate: review line 301, enhanced line 372, advanced line 707.
Gate(v, mem) ==
    IF variant = "advanced"
    THEN v.should /\ v.score >= threshold
    ELSE /\ v.should
         /\ v.score >= threshold
         /\ NudgeOf(v) # ""
         /\ NudgeHash(NudgeOf(v)) # mem.last_nudge_hash

PassInit ==
    /\ variant \in Variants
    /\ threshold = DefaultThreshold(variant)
    /\ max_lines_total = DefaultMaxLines(variant)
    /\ max_events = DefaultMaxEvents(variant)
    /\ RichInit
    /\ transcript = <<>>
    /\ memFile = DefaultMemory
    /\ fs = OnDisk(memFile)
    /\ pendFile = NoPending
    /\ ppc = [p \in Procs |-> "idle"]
    /\ ploc = [p \in Procs |-> NoPassLocals]
    /\ lastEmit = NoHash
    /\ dupEmit = FALSE
    /\ lastKill = "none"

\* The host appends one event, stamped with the current time.
AppendEvent ==
    /\ Len(transcript) < MaxTranscript
    /\ transcript' = Append(transcript, clock)
    /\ UNCHANGED <<clock, gateVars, nudgeVars>>
    /\ UNCHANGED <<rich, adv, fs, variant, threshold, max_lines_total, max_events, memFile, pendFile, ppc, ploc, lastEmit, dupEmit, lastKill>>

\* The host appends one event that carries no timestamp (entry.get("timestamp","")
\* of line 75 is then the empty string, modelled as 0).
AppendUnstamped ==
    /\ Len(transcript) < MaxTranscript
    /\ transcript' = Append(transcript, 0)
    /\ UNCHANGED <<clock, gateVars, nudgeVars>>
    /\ UNCHANGED <<rich, adv, fs, variant, threshold, max_lines_total, max_events, memFile, pendFile, ppc, ploc, lastEmit, dupEmit, lastKill>>

\* review lines 239-246: load the memory, read the new messages (with none,
\* PassNoop); sanitize them (review line 246, enhanced line 306). The enhanced (line 303) and advanced (line 632) workers then merge
\* what the reader found into the memory dict they hold; the session counter,
\* the summaries and the recommendations of the advanced worker, which no gate
\* reads, are followed by AdvancedMerge.
\* memory.get("last_timestamp") of line 242 is outside every try: on a memory
\* that is not a dict it raises AttributeError and the pass ends there.
PassStart(p, f) ==
    /\ ppc[p] \in {"idle", "failed", "crashed", "noop"}
    /\ LET mem  == load_json(memFile, DefaultMemory)
           msgs == Newer(mem.last_timestamp)
       IN IF mem.state = "nonobject"
          THEN /\ ploc' = [ploc EXCEPT ![p] = NoPassLocals]
               /\ ppc' = [ppc EXCEPT ![p] = "crashed"]
          ELSE /\ msgs # <<>>
               /\ ploc' = [ploc EXCEPT ![p] =
                             [NoPassLocals EXCEPT
                                 !.mem = [mem EXCEPT !.lists = MergeFindings(mem.lists, f)],
                                 !.last_ts = NextWatermark(msgs, mem),
                                 !.sanitized = IF variant = "advanced" THEN <<>>
                                               ELSE Sanitize(msgs)]]
               /\ ppc' = [ppc EXCEPT ![p] = "ready"]
    /\ UNCHANGED <<clock, gateVars, nudgeVars>>
    /\ UNCHANGED <<rich, adv, fs, variant, threshold, max_lines_total, max_events, transcript, memFile, pendFile, lastEmit, dupEmit, lastKill>>

\* review lines 239-244 (enhanced 288-300, advanced 612-629): no transcript
\* was found, or it holds no event beyond the watermark: main returns.  An
\* empty transcript stands for a missing one: both give no messages.
\* PassNoopSaving is a variant the code does not have: it saves the memory it
\* loaded before it returns.
PassNoopSaving(p) ==
    /\ ppc[p] \in {"idle", "failed", "crashed", "noop"}
    /\ LET mem == load_json(memFile, DefaultMemory)
       IN /\ mem.state # "nonobject"
          /\ Newer(mem.last_timestamp) = <<>>
          /\ memFile' = [mem EXCEPT !.state = "ok"]
          /\ fs' = OnDisk(memFile')
    /\ ploc' = [ploc EXCEPT ![p] = NoPassLocals]
    /\ ppc' = [ppc EXCEPT ![p] = "noop"]
    /\ UNCHANGED <<clock, gateVars, nudgeVars>>
    /\ UNCHANGED <<rich, adv, variant, threshold, max_lines_total, max_events, transcript, pendFile, lastEmit, dupEmit, lastKill>>

PassNoop(p) ==
    /\ ppc[p] \in {"idle", "failed", "crashed", "noop"}
    /\ LET mem == load_json(memFile, DefaultMemory)
       IN /\ mem.state # "nonobject"
          /\ Newer(mem.last_timestamp) = <<>>
    /\ ploc' = [ploc EXCEPT ![p] = NoPassLocals]
    /\ ppc' = [ppc EXCEPT ![p] = "noop"]
    /\ UNCHANGED <<clock, gateVars, nudgeVars>>
    /\ UNCHANGED <<rich, adv, fs, variant, threshold, max_lines_total, max_events, transcript, memFile, pendFile, lastEmit, dupEmit, lastKill>>

\* Variants of the failure path that the code does not have: one that saves the
\* advanced watermark before it returns, one that calls the service again.
PassAdviseFailSaving(p) ==
    /\ ppc[p] = "ready"
    /\ ppc' = [ppc EXCEPT ![p] = "failed"]
    /\ ploc' = [ploc EXCEPT ![p] = [NoPassLocals EXCEPT !.calls = ploc[p].calls + 1]]
    /\ memFile' = [ploc[p].mem EXCEPT !.state = "ok", !.last_timestamp = ploc[p].last_ts]
    /\ fs' = OnDisk(memFile')
    /\ UNCHANGED <<clock, gateVars, nudgeVars>>
    /\ UNCHANGED <<rich, adv, variant, threshold, max_lines_total, max_events, transcript, pendFile, lastEmit, dupEmit, lastKill>>

PassAdviseFailRetry(p) ==
    /\ ppc[p] = "ready"
    /\ ploc' = [ploc EXCEPT ![p].calls = ploc[p].calls + 1]
    /\ UNCHANGED <<clock, gateVars, nudgeVars>>
    /\ UNCHANGED <<rich, adv, fs, variant, threshold, max_lines_total, max_events, transcript, memFile, pendFile, ppc, lastEmit, dupEmit, lastKill>>

\* review lines 266-278: the one call of call_openai fails (missing key,
\* transport error, timeout, HTTP error status) or its reply holds no JSON
\* object: main returns and the process ends.
PassAdviseFail(p) ==
    /\ ppc[p] = "ready"
    /\ ppc' = [ppc EXCEPT ![p] = "failed"]
    /\ ploc' = [ploc EXCEPT ![p] = [NoPassLocals EXCEPT !.calls = ploc[p].calls + 1]]
    /\ UNCHANGED <<clock, gateVars, nudgeVars>>
    /\ UNCHANGED <<rich, adv, fs, variant, threshold, max_lines_total, max_events, transcript, memFile, pendFile, lastEmit, dupEmit, lastKill>>

\* review lines 268-297: a parseable verdict; the lists named in the reply are
\* merged (enhanced, advanced) and memory["last_timestamp"] is set.
PassAdvise(p, v) ==
    /\ ppc[p] = "ready"
    /\ ppc' = [ppc EXCEPT ![p] = "advised"]
    /\ ploc' = [ploc EXCEPT ![p].verdict = v,
                            ![p].sanitized = <<>>,
                            ![p].mem.last_timestamp = ploc[p].last_ts,
                            ![p].mem.lists = MergeVerdict(@, v),
                            ![p].calls = ploc[p].calls + 1]
    /\ UNCHANGED <<clock, gateVars, nudgeVars>>
    /\ UNCHANGED <<rich, adv, fs, variant, threshold, max_lines_total, max_events, transcript, memFile, pendFile, lastEmit, dupEmit, lastKill>>

\* review line 298, save_json(MEMORY_FILE, memory): the write has begun.
PassSaveMemBegin(p) ==
    /\ ppc[p] = "advised"
    /\ memFile' = DuringSave(memFile, PartialMemory)
    /\ fs' = OnDisk(memFile')
    /\ ppc' = [ppc EXCEPT ![p] = "memOpen"]
    /\ UNCHANGED <<clock, gateVars, nudgeVars>>
    /\ UNCHANGED <<rich, adv, variant, threshold, max_lines_total, max_events, transcript, pendFile, ploc, lastEmit, dupEmit, lastKill>>

\* review line 298: the write is complete (review: the rename of line 49).
PassSaveMemEnd(p) ==
    /\ ppc[p] = "memOpen"
    /\ memFile' = [ploc[p].mem EXCEPT !.state = "ok"]
    /\ fs' = OnDisk(memFile')
    /\ ppc' = [ppc EXCEPT ![p] = "memSaved"]
    /\ UNCHANGED <<clock, gateVars, nudgeVars>>
    /\ UNCHANGED <<rich, adv, variant, threshold, max_lines_total, max_events, transcript, pendFile, ploc, lastEmit, dupEmit, lastKill>>

\* review line 301: the gate rejects the verdict; the pass ends.
PassGateReject(p) ==
    /\ ppc[p] = "memSaved"
    /\ ~Gate(ploc[p].verdict, ploc[p].mem)
    /\ ppc' = [ppc EXCEPT ![p] = "idle"]
    /\ ploc' = [ploc EXCEPT ![p] = NoPassLocals]
    /\ UNCHANGED <<clock, gateVars, nudgeVars>>
    /\ UNCHANGED <<rich, adv, fs, variant, threshold, max_lines_total, max_events, transcript, memFile, pendFile, lastEmit, dupEmit, lastKill>>

\* review lines 301-310: the gate accepts; the payload is built (created_at =
\* now_iso()) and save_json(PENDING_FILE, payload) has begun: the enhanced and
\* the advanced worker hold pending_feedback.json itself open for writing.
PassPendingBegin(p) ==
    /\ ppc[p] = "memSaved"
    /\ Gate(ploc[p].verdict, ploc[p].mem)
    /\ ploc' = [ploc EXCEPT ![p].created = clock,
                            ![p].fd = IF AtomicSave THEN "none" ELSE "target"]
    /\ pendFile' = DuringSave(pendFile, PartialPending)
    /\ printed' = (printed /\ pendFile' = pendFile)
    /\ ppc' = [ppc EXCEPT ![p] = "pendOpen"]
    /\ UNCHANGED <<clock, gateVars, npc, lastDelivery>>
    /\ UNCHANGED <<rich, adv, fs, variant, threshold, max_lines_total, max_events, transcript, memFile, lastEmit, dupEmit, lastKill>>

\* A variant of the pending write that the code does not have: it keeps an
\* unconsumed record that is in place instead of overwriting it.
PassPendingEndKeepOld(p) ==
    /\ ppc[p] = "pendOpen"
    /\ LET v == ploc[p].verdict IN
       /\ pendFile' = IF pendFile.state = "ok" THEN pendFile
                       ELSE [state |-> "ok", created_at |-> ploc[p].created, ttl |-> NUDGE_TTL,
                             body |-> NudgeOf(v), reason |-> v.reason]
       /\ lastEmit' = Sha256(NudgeOf(v))
       /\ dupEmit' = (dupEmit \/ lastEmit = Sha256(NudgeOf(v)))
    /\ IF variant = "advanced"
       THEN ppc' = [ppc EXCEPT ![p] = "idle"] /\ ploc' = [ploc EXCEPT ![p] = NoPassLocals]
       ELSE ppc' = [ppc EXCEPT ![p] = "pendSaved"] /\ ploc' = [ploc EXCEPT ![p].fd = "none"]
    /\ printed' = FALSE
    /\ UNCHANGED <<clock, gateVars, npc, lastDelivery>>
    /\ UNCHANGED <<rich, adv, fs, variant, threshold, max_lines_total, max_events, transcript, memFile, lastKill>>

\* review line 310: the pending record is in place. The advanced worker ends here.
PassPendingEnd(p) ==
    /\ ppc[p] = "pendOpen"
    /\ LET v == ploc[p].verdict IN
       IF ploc[p].fd = "orphan"
       THEN \* the file was unlinked while it was open: the text went to an
            \* inode that has no name any more
            UNCHANGED <<pendFile, lastEmit, dupEmit>>
       ELSE /\ pendFile' = [state |-> "ok", created_at |-> ploc[p].created, ttl |-> NUDGE_TTL,
                            body |-> NudgeOf(v), reason |-> v.reason]
            /\ lastEmit' = Sha256(NudgeOf(v))
            /\ dupEmit' = (dupEmit \/ lastEmit = Sha256(NudgeOf(v)))
    /\ IF variant = "advanced"
       THEN ppc' = [ppc EXCEPT ![p] = "idle"] /\ ploc' = [ploc EXCEPT ![p] = NoPassLocals]
       ELSE ppc' = [ppc EXCEPT ![p] = "pendSaved"] /\ ploc' = [ploc EXCEPT ![p].fd = "none"]
    /\ printed' = FALSE
    /\ UNCHANGED <<clock, gateVars, npc, lastDelivery>>
    /\ UNCHANGED <<rich, adv, fs, variant, threshold, max_lines_total, max_events, transcript, memFile, lastKill>>

\* review lines 311-312: memory["last_nudge_hash"] = nudge_hash; save_json begins.
PassSaveHashBegin(p) ==
    /\ ppc[p] = "pendSaved"
    /\ ploc' = [ploc EXCEPT ![p].mem.last_nudge_hash = NudgeHash(NudgeOf(ploc[p].verdict))]
    /\ memFile' = DuringSave(memFile, PartialMemory)
    /\ fs' = OnDisk(memFile')
    /\ ppc' = [ppc EXCEPT ![p] = "hashOpen"]
    /\ UNCHANGED <<clock, gateVars, nudgeVars>>
    /\ UNCHANGED <<rich, adv, variant, threshold, max_lines_total, max_events, transcript, pendFile, lastEmit, dupEmit, lastKill>>

\* review line 312: the second save of the memory is complete; the pass ends.
PassSaveHashEnd(p) ==
    /\ ppc[p] = "hashOpen"
    /\ memFile' = [ploc[p].mem EXCEPT !.state = "ok"]
    /\ fs' = OnDisk(memFile')
    /\ ppc' = [ppc EXCEPT ![p] = "idle"]
    /\ ploc' = [ploc EXCEPT ![p] = NoPassLocals]
    /\ UNCHANGED <<clock, gateVars, nudgeVars>>
    /\ UNCHANGED <<rich, adv, variant, threshold, max_lines_total, max_events, transcript, pendFile, lastEmit, dupEmit, lastKill>>

\* write(2) of text at offset 0 of a file that holds old: the bytes beyond the
\* end of text stay.
WriteAt0(old, text) == text \o SubSeq(old, Len(text) + 1, Len(old))

\* Another pass is running.
Overlapping(p) == \E q \in Procs \ {p} : ppc[q] \notin {"idle", "failed", "crashed", "noop"}

\* save_json(MEMORY_FILE, memory) system call by system call, for passes that
\* may overlap. First the open for writing: of memory.tmp (review line 48,
\* path.with_suffix(".tmp"): one name for every pass) or of memory.json itself
\* (enhanced line 50, advanced line 51). The file is created, or truncated if it
\* exists. Before the save of line 312 memory["last_nudge_hash"] is set.
SaveOpen(p) ==
    /\ ppc[p] \in {"advised", "pendSaved"}
    /\ LET name == IF AtomicSave THEN "tmp" ELSE "target"
           mem  == IF ppc[p] = "pendSaved"
                   THEN [ploc[p].mem EXCEPT
                            !.last_nudge_hash = NudgeHash(NudgeOf(ploc[p].verdict))]
                   ELSE ploc[p].mem
       IN /\ fs' = [fs EXCEPT ![name] = EmptyFile,
                               !.overlap = @ \/ Overlapping(p),
                               !.savers = @ \cup {p}]
          /\ ploc' = [ploc EXCEPT ![p].mem = mem, ![p].fd = name]
    /\ memFile' = Loads(fs'.target)
    /\ ppc' = [ppc EXCEPT ![p] = IF ppc[p] = "advised" THEN "memOpen" ELSE "hashOpen"]
    /\ UNCHANGED <<clock, gateVars, nudgeVars>>
    /\ UNCHANGED <<rich, adv, variant, threshold, max_lines_total, max_events, transcript, pendFile, lastEmit, dupEmit, lastKill>>

\* The text is written at the descriptor's own offset 0 and the file is closed.
\* For the enhanced and the advanced worker save_json is over.
SaveWrite(p) ==
    /\ ppc[p] \in {"memOpen", "hashOpen"}
    /\ ploc[p].fd # "none"
    /\ LET fd == ploc[p].fd IN
       fs' = IF fd = "orphan" THEN fs
             ELSE [fs EXCEPT ![fd].bytes = WriteAt0(@, Dumps(ploc[p].mem))]
    /\ memFile' = Loads(fs'.target)
    /\ IF AtomicSave
       THEN /\ ppc' = [ppc EXCEPT ![p] = IF ppc[p] = "memOpen" THEN "memWritten"
                                                               ELSE "hashWritten"]
            /\ ploc' = [ploc EXCEPT ![p].fd = "none"]
       ELSE IF ppc[p] = "memOpen"
       THEN /\ ppc' = [ppc EXCEPT ![p] = "memSaved"]
            /\ ploc' = [ploc EXCEPT ![p].fd = "none"]
       ELSE /\ ppc' = [ppc EXCEPT ![p] = "idle"]
            /\ ploc' = [ploc EXCEPT ![p] = NoPassLocals]
    /\ UNCHANGED <<clock, gateVars, nudgeVars>>
    /\ UNCHANGED <<rich, adv, variant, threshold, max_lines_total, max_events, transcript, pendFile, lastEmit, dupEmit, lastKill>>

\* review line 49, tmp.replace(path): the inode named memory.tmp becomes
\* memory.json, with whatever it holds and whoever still has it open. With no
\* memory.tmp (another pass renamed it away) FileNotFoundError ends the pass.
SaveRename(p) ==
    /\ ppc[p] \in {"memWritten", "hashWritten"}
    /\ IF fs.tmp.exists
       THEN /\ fs' = [fs EXCEPT !.target = fs.tmp, !.tmp = NoFile]
            /\ ppc' = [ppc EXCEPT ![p] = IF ppc[p] = "memWritten" THEN "memSaved" ELSE "idle"]
            /\ ploc' = [q \in Procs |->
                          IF q = p
                          THEN IF ppc[p] = "memWritten" THEN ploc[p] ELSE NoPassLocals
                          ELSE [ploc[q] EXCEPT !.fd = CASE @ = "tmp" -> "target"
                                                        [] @ = "target" -> "orphan"
                                                        [] OTHER -> @]]
       ELSE /\ ppc' = [ppc EXCEPT ![p] = "crashed"]
            /\ ploc' = [ploc EXCEPT ![p] = NoPassLocals]
            /\ UNCHANGED fs
    /\ memFile' = Loads(fs'.target)
    /\ UNCHANGED <<clock, gateVars, nudgeVars>>
    /\ UNCHANGED <<rich, adv, variant, threshold, max_lines_total, max_events, transcript, pendFile, lastEmit, dupEmit, lastKill>>

\* The pass process is killed between two steps.
PassKill(p) ==
    /\ ppc[p] \notin {"idle", "failed", "crashed", "noop"}
    /\ lastKill' = IF ppc[p] \in {"memSaved", "pendOpen"} THEN "window" ELSE lastKill
    /\ ppc' = [ppc EXCEPT ![p] = "idle"]
    /\ ploc' = [ploc EXCEPT ![p] = NoPassLocals]
    /\ UNCHANGED <<clock, gateVars, nudgeVars>>
    /\ UNCHANGED <<rich, adv, fs, variant, threshold, max_lines_total, max_events, transcript, memFile, pendFile, lastEmit, dupEmit>>

\* The verdicts explored: every score and body with should_intervene true, and
\* one verdict with should_intervene false that passes every other test.
Verdicts ==
    [should : {TRUE}, score : Scores, body : Bodies, reason : {Reason},
     key_decisions : {0}, insights : {0}, rollback : {0}]
        \cup {[NoVerdict EXCEPT !.score = 2, !.body = "b", !.reason = Reason]}

\* The verdicts explored when two passes overlap: one the gate accepts under
\* every default threshold, one it rejects.
OverlapVerdicts ==
    {[NoVerdict EXCEPT !.should = TRUE, !.score = 2, !.body = "b", !.reason = Reason],
     [NoVerdict EXCEPT !.score = 2, !.body = "b", !.reason = Reason]}

\* The replies explored for the memory lists: no nudge; none or two key
\* decisions, at most one memory insight, at most one rollback feature.
ListVerdicts ==
    [should : {FALSE}, score : {0}, body : {""}, reason : {Reason},
     key_decisions : {0, 2}, insights : 0..1, rollback : 0..1]

\* ----------------------------------------------------------- nudge delivery
\* What a nudge-hook run did: the state of the pending file it found, the age it
\* computed, whether it printed the nudge, whether the file was left in place.
\* status is the exit status of the run; crashed: it ended on an uncaught exception.
NoDelivery == [finished |-> FALSE, seen |-> "absent", age |-> 0, blank |-> FALSE,
               shown |-> FALSE, left |-> FALSE, again |-> FALSE,
               status |-> 0, crashed |-> FALSE]

\* The contents of pending_feedback.json a nudge-hook run may find: none, a
\* fresh record, text that is not JSON (the empty file included), a JSON value
\* that is not an object, an object whose ttl_seconds int() cannot convert, an
\* object whose nudge_markdown is not a string.
PendingContents ==
    {NoPending, PartialPending} \cup
    {[state |-> st, created_at |-> StartClock, ttl |-> NUDGE_TTL, body |-> "b", reason |-> Reason] :
        st \in {"ok", "nonobject", "badttl", "badbody"}}

NudgeInit ==
    /\ npc = [h \in Procs |-> "idle"]
    /\ lastDelivery = NoDelivery
    /\ printed = FALSE

\* line 53: the record is stale
Stale(age, ttl) == age > ttl

\* lines 26-64: read the event e and the pending record, and decide; a fresh
\* non-empty nudge is printed to stderr here, before it is unlinked.
DeliverRead(h, e) ==
    /\ npc[h] = "idle"
    /\ LET age == clock - pendFile.created_at IN
       IF e = "invalid"
       THEN \* line 30: stdin is not JSON, sys.exit(0) before the record is looked at
            /\ lastDelivery' = [NoDelivery EXCEPT !.finished = TRUE, !.seen = "unread",
                                                  !.left = (pendFile.state # "absent")]
            /\ UNCHANGED <<npc, printed>>
       ELSE IF e \in {"nonobject", "badcwd"}
       THEN \* line 32 data_in.get, line 17 cwd.encode: uncaught AttributeError
            /\ lastDelivery' = [NoDelivery EXCEPT !.finished = TRUE, !.seen = "unread",
                                                  !.left = (pendFile.state # "absent"),
                                                  !.status = 1, !.crashed = TRUE]
            /\ UNCHANGED <<npc, printed>>
       ELSE IF pendFile.state = "absent"
       THEN \* line 38: sys.exit(0)
            /\ lastDelivery' = [NoDelivery EXCEPT !.finished = TRUE]
            /\ UNCHANGED <<npc, printed>>
       ELSE IF pendFile.state = "partial"
       THEN \* line 43: json.loads raised, sys.exit(0); the file stays
            /\ lastDelivery' = [NoDelivery EXCEPT !.finished = TRUE, !.seen = "partial",
                                                  !.left = TRUE]
            /\ UNCHANGED <<npc, printed>>
       ELSE IF \/ pendFile.state \in {"nonobject", "badttl"}
               \/ (pendFile.state = "badbody" /\ ~Stale(age, pendFile.ttl))
       THEN \* line 45 data.get, line 46 int(), line 58 .strip(): uncaught exception
            /\ lastDelivery' = [NoDelivery EXCEPT !.finished = TRUE, !.seen = pendFile.state,
                                                  !.left = TRUE, !.status = 1,
                                                  !.crashed = TRUE]
            /\ UNCHANGED <<npc, printed>>
       ELSE IF Stale(age, pendFile.ttl)
       THEN \* line 53: about to unlink the stale record
            /\ lastDelivery' = [NoDelivery EXCEPT !.seen = IF pendFile.state = "badbody"
                                                             THEN "badbody" ELSE "ok",
                                                  !.age = age, !.left = TRUE,
                                                  !.blank = (Strip(pendFile.body) = "")]
            /\ npc' = [npc EXCEPT ![h] = "unlinkStale"]
            /\ UNCHANGED printed
       ELSE IF Strip(pendFile.body) # ""
       THEN \* lines 60-64: printed; about to unlink
            /\ lastDelivery' = [NoDelivery EXCEPT !.seen = "ok", !.age = age,
                                                  !.shown = TRUE, !.left = TRUE,
                                                  !.again = printed]
            /\ npc' = [npc EXCEPT ![h] = "unlinkShown"]
            /\ printed' = TRUE
       ELSE \* line 70: an empty nudge: sys.exit(0); the file stays
            /\ lastDelivery' = [NoDelivery EXCEPT !.finished = TRUE, !.seen = "ok",
                                                  !.age = age, !.blank = TRUE, !.left = TRUE]
            /\ UNCHANGED <<npc, printed>>
    /\ UNCHANGED <<clock, gateVars, passVars>>

\* lines 54-56 and 66-68: PENDING.unlink(), then sys.exit(0) or sys.exit(1). A
\* pass that holds the file open for writing goes on writing to the unlinked inode.
DeliverUnlink(h) ==
    /\ npc[h] \in {"unlinkStale", "unlinkShown"}
    /\ pendFile' = NoPending
    /\ ploc' = [q \in Procs |-> IF ppc[q] = "pendOpen" /\ ploc[q].fd = "target"
                                THEN [ploc[q] EXCEPT !.fd = "orphan"] ELSE ploc[q]]
    /\ printed' = FALSE
    /\ lastDelivery' = [lastDelivery EXCEPT !.finished = TRUE, !.left = FALSE,
                                            !.status = IF npc[h] = "unlinkShown" THEN 1 ELSE 0]
    /\ npc' = [npc EXCEPT ![h] = "idle"]
    /\ UNCHANGED <<clock, gateVars>>
    /\ UNCHANGED <<rich, adv, fs, variant, threshold, max_lines_total, max_events, transcript, memFile, ppc, lastEmit, dupEmit, lastKill>>

\* The nudge hook is killed before it unlinks.
DeliverKill(h) ==
    /\ npc[h] \in {"unlinkStale", "unlinkShown"}
    /\ npc' = [npc EXCEPT ![h] = "idle"]
    /\ UNCHANGED <<clock, gateVars, passVars, lastDelivery, printed>>

Tick ==
    /\ clock < MaxClock
    /\ clock' = clock + 1
    /\ UNCHANGED <<gateVars, passVars, nudgeVars>>

\* ------------------------------------------------------- project identity
\* The working directories of the model and their SHA-256 digests, as hex
\* digits: "/a" and "/c" agree on the digits that proj_slug keeps.
Paths == {"/a", "/b", "/c"}
Hexdigest(c) ==
    CASE c = "/a" -> <<1, 2, 3, 4, 5>>
      [] c = "/b" -> <<6, 7, 8, 9, 0>>
      [] OTHER    -> <<1, 2, 3, 4, 9>>

\* proj_slug (counter lines 14-17; the nudge hook and the three workers hold
\* the same lines): hexdigest()[:12].
proj_slug(c) == SubSeq(Hexdigest(c), 1, SlugLen)

\* A directory layout the code does not have: every project in HOME_SIDE_DIR.
proj_dir_shared(c) == <<>>

\* proj_dir: HOME_SIDE_DIR / proj_slug(cwd), by its name under HOME_SIDE_DIR.
proj_dir(c) == proj_slug(c)

\* A directory that proj_dir has just made (mkdir, exist_ok=True): none of the
\* three files exists.
EmptyDir == [state |-> NoState, memory |-> DefaultMemory, fs |-> OnDisk(DefaultMemory),
             pending |-> NoPending]

\* state.json, memory.json (and memory.tmp) and pending_feedback.json of the
\* directory that the scripts derive from the path c.
DirOf(c) ==
    IF proj_dir(c) = proj_dir(cwd)
    THEN [state |-> stateFile, memory |-> memFile, fs |-> fs, pending |-> pendFile]
    ELSE IF proj_dir(c) \in DOMAIN dirs THEN dirs[proj_dir(c)]
    ELSE EmptyDir

ProjectInit ==
    /\ cwd = "/a"
    /\ dirs = [d \in {} |-> EmptyDir]

\* The session moves to the working directory c while no hook and no pass is
\* running: the events that follow carry cwd = c, and the scripts work on the
\* files of proj_dir(c).
SwitchProject(c) ==
    /\ c # cwd
    /\ \A h \in Procs : cpc[h] \in {"idle", "done"} /\ npc[h] = "idle"
    /\ \A q \in Procs : ppc[q] \in {"idle", "failed", "crashed", "noop"}
    /\ cwd' = c
    /\ IF proj_dir(c) = proj_dir(cwd)
       THEN UNCHANGED <<dirs, stateFile, memFile, fs, pendFile>>
       ELSE /\ dirs' = [d \in (DOMAIN dirs \cup {proj_dir(cwd)}) \ {proj_dir(c)} |->
                          IF d = proj_dir(cwd) THEN DirOf(cwd) ELSE dirs[d]]
            /\ stateFile' = DirOf(c).state
            /\ memFile' = DirOf(c).memory
            /\ fs' = DirOf(c).fs
            /\ pendFile' = DirOf(c).pending
    /\ UNCHANGED <<clock, interval, cooldown, workerScript, cpc, cloc, launchLog, nCounted>>
    /\ UNCHANGED <<rich, adv, variant, threshold, max_lines_total, max_events, transcript, ppc, ploc, lastEmit, dupEmit, lastKill>>
    /\ UNCHANGED nudgeVars

GateNext ==
    \/ \E h \in SeqProcs : HookLoad(h, WellFormed)
    \/ \E h \in SeqProcs : HookCount(h)
    \/ \E h \in SeqProcs : HookDecide(h)
    \/ \E h \in SeqProcs : HookRecord(h)
    \/ \E h \in SeqProcs : HookKill(h)
    \/ Tick

\* The trigger gate alone, under every configuration of INTERVAL and COOLDOWN_S.
InitGate ==
    /\ clock = StartClock
    /\ GateInit /\ ProjectInit
    /\ PassInit /\ variant = "review" /\ threshold = 2
    /\ NudgeInit

SpecGate == InitGate /\ [][GateNext]_vars

\* The background pass and the nudge hook on one project, under every worker
\* script; passes run one at a time and may be started at any moment.
NudgeNext ==
    \/ AppendEvent
    \/ \E p \in SeqProcs : PassStart(p, NoFindings)
    \/ \E p \in SeqProcs : PassAdviseFail(p)
    \/ \E p \in SeqProcs : \E v \in Verdicts : PassAdvise(p, v)
    \/ \E p \in SeqProcs : PassSaveMemBegin(p)
    \/ \E p \in SeqProcs : PassSaveMemEnd(p)
    \/ \E p \in SeqProcs : PassGateReject(p)
    \/ \E p \in SeqProcs : PassPendingBegin(p)
    \/ \E p \in SeqProcs : PassPendingEnd(p)
    \/ \E p \in SeqProcs : PassSaveHashBegin(p)
    \/ \E p \in SeqProcs : PassSaveHashEnd(p)
    \/ \E p \in SeqProcs : PassKill(p)
    \/ \E h \in SeqProcs : DeliverRead(h, WellFormed)
    \/ \E h \in SeqProcs : DeliverUnlink(h)
    \/ \E h \in SeqProcs : DeliverKill(h)
    \/ Tick

InitNudge ==
    /\ clock = StartClock
    /\ GateInit /\ ProjectInit /\ interval = 2 /\ cooldown = 2 /\ workerScript = "installed"
    /\ PassInit
    /\ NudgeInit

SpecNudge == InitNudge /\ [][NudgeNext]_vars

\* Two host callbacks may run the nudge hook at the same time while the review
\* worker's passes go on; no process is killed.
DeliverNext ==
    \/ AppendEvent
    \/ \E p \in SeqProcs : PassStart(p, NoFindings)
    \/ \E p \in SeqProcs : \E v \in Verdicts : PassAdvise(p, v)
    \/ \E p \in SeqProcs : PassSaveMemBegin(p)
    \/ \E p \in SeqProcs : PassSaveMemEnd(p)
    \/ \E p \in SeqProcs : PassGateReject(p)
    \/ \E p \in SeqProcs : PassPendingBegin(p)
    \/ \E p \in SeqProcs : PassPendingEnd(p)
    \/ \E p \in SeqProcs : PassSaveHashBegin(p)
    \/ \E p \in SeqProcs : PassSaveHashEnd(p)
    \/ \E h \in Procs : DeliverRead(h, WellFormed)
    \/ \E h \in Procs : DeliverUnlink(h)
    \/ Tick

InitDeliver == InitNudge /\ variant = "review"

SpecDeliver == InitDeliver /\ [][DeliverNext]_vars

\* Two passes of one worker script may overlap in time (two triggers fired while
\* the first pass was still running); events may lack a timestamp.
OverlapNext ==
    \/ (Len(transcript) < MaxOverlapTranscript /\ AppendEvent)
    \/ (Len(transcript) < MaxOverlapTranscript /\ AppendUnstamped)
    \/ \E p \in Procs : PassStart(p, NoFindings)
    \/ \E p \in Procs : \E v \in OverlapVerdicts : PassAdvise(p, v)
    \/ \E p \in Procs : PassSaveMemBegin(p)
    \/ \E p \in Procs : PassSaveMemEnd(p)
    \/ \E p \in Procs : PassGateReject(p)
    \/ \E p \in Procs : PassPendingBegin(p)
    \/ \E p \in Procs : PassPendingEnd(p)
    \/ \E p \in Procs : PassSaveHashBegin(p)
    \/ \E p \in Procs : PassSaveHashEnd(p)
    \/ Tick

InitOverlap == InitNudge

SpecOverlap == InitOverlap /\ [][OverlapNext]_vars

\* Two overlapping passes whose saves of the memory record are followed system
\* call by system call.
SaveNext ==
    \/ (Len(transcript) < MaxOverlapTranscript /\ AppendEvent)
    \/ \E p \in Procs : PassStart(p, NoFindings)
    \/ \E p \in Procs : \E v \in OverlapVerdicts : PassAdvise(p, v)
    \/ \E p \in Procs : SaveOpen(p)
    \/ \E p \in Procs : SaveWrite(p)
    \/ \E p \in Procs : SaveRename(p)
    \/ \E p \in Procs : PassGateReject(p)
    \/ \E p \in Procs : PassPendingBegin(p)
    \/ \E p \in Procs : PassPendingEnd(p)
    \/ Tick

InitSave == InitNudge

SpecSave == InitSave /\ [][SaveNext]_vars

\* The inline hooks and the start of a pass under every shape of stdin and
\* every content of the three state files.
InitInputs ==
    /\ clock = StartClock
    /\ ProjectInit
    /\ interval = 2 /\ cooldown = 2 /\ workerScript = "installed"
    /\ stateFile \in StateContents
    /\ cpc = [h \in Procs |-> "idle"]
    /\ cloc = [h \in Procs |-> NoLocals]
    /\ launchLog = <<>>
    /\ nCounted = 0
    /\ variant \in Variants
    /\ threshold = DefaultThreshold(variant)
    /\ max_lines_total = DefaultMaxLines(variant)
    /\ max_events = DefaultMaxEvents(variant)
    /\ RichInit
    /\ transcript = <<>>
    /\ memFile \in MemoryContents
    /\ fs = OnDisk(memFile)
    /\ pendFile \in PendingContents
    /\ ppc = [p \in Procs |-> "idle"]
    /\ ploc = [p \in Procs |-> NoPassLocals]
    /\ lastEmit = NoHash
    /\ dupEmit = FALSE
    /\ lastKill = "none"
    /\ NudgeInit

InputsNext ==
    \/ \E h \in SeqProcs : \E e \in EventShapes : (stateFile.count < MaxInputEvents /\ HookLoad(h, e))
    \/ \E h \in SeqProcs : HookCount(h)
    \/ \E h \in SeqProcs : HookDecide(h)
    \/ \E h \in SeqProcs : HookRecord(h)
    \/ (transcript = <<>> /\ AppendEvent)
    \/ \E p \in SeqProcs : PassStart(p, NoFindings)
    \/ \E p \in SeqProcs : PassAdviseFail(p)
    \/ \E h \in SeqProcs : \E e \in EventShapes : DeliverRead(h, e)
    \/ \E h \in SeqProcs : DeliverUnlink(h)
    \/ Tick

SpecInputs == InitInputs /\ [][InputsNext]_vars

\* The transcript cursor as a function of its two inputs: any transcript whose
\* stamped events are in append order (events may lack a timestamp) and any
\* persisted watermark, which may stem from an earlier transcript of the project.
Stamps == {0} \cup (StartClock..MaxClock)
Transcripts ==
    {tr \in UNION {[1..n -> Stamps] : n \in 0..MaxTranscript} :
        \A i, j \in DOMAIN tr : (i < j /\ tr[i] # 0 /\ tr[j] # 0) => tr[i] <= tr[j]}

InitCursor ==
    /\ clock = MaxClock
    /\ GateInit /\ ProjectInit /\ interval = 2 /\ cooldown = 2 /\ workerScript = "installed"
    /\ NudgeInit
    /\ variant \in Variants
    /\ threshold = DefaultThreshold(variant)
    /\ max_lines_total = DefaultMaxLines(variant)
    /\ max_events = DefaultMaxEvents(variant)
    /\ RichInit
    /\ transcript \in Transcripts
    /\ memFile \in {DefaultMemory} \cup
                    {[DefaultMemory EXCEPT !.state = "ok", !.last_timestamp = w] : w \in Stamps}
    /\ fs = OnDisk(memFile)
    /\ pendFile = NoPending
    /\ ppc = [p \in Procs |-> "idle"]
    /\ ploc = [p \in Procs |-> NoPassLocals]
    /\ lastEmit = NoHash
    /\ dupEmit = FALSE
    /\ lastKill = "none"

\* The cursor is read by the start of a pass; a pass that ends on a failed call
\* lets the next one read the same transcript with the same watermark.
CursorNext ==
    \/ \E p \in SeqProcs : PassStart(p, NoFindings)
    \/ \E p \in SeqProcs : PassAdviseFail(p)

SpecCursor == InitCursor /\ [][CursorNext]_vars

\* The sanitizer under every line cap the environment can set, zero and a
\* negative number included (int() of line 33 accepts them).
LineCaps == (0 - 1)..MaxLineCap
\* ... and under every window of events from 0 on.
EventCaps == 0..MaxEventCap

InitSanitize ==
    /\ clock = MaxClock
    /\ GateInit /\ ProjectInit /\ interval = 2 /\ cooldown = 2 /\ workerScript = "installed"
    /\ NudgeInit
    /\ variant \in Variants
    /\ threshold = DefaultThreshold(variant)
    /\ max_lines_total \in LineCaps
    /\ max_events \in EventCaps
    /\ RichInit
    /\ transcript \in Transcripts
    /\ memFile \in {DefaultMemory} \cup
                    {[DefaultMemory EXCEPT !.state = "ok", !.last_timestamp = w] : w \in Stamps}
    /\ fs = OnDisk(memFile)
    /\ pendFile = NoPending
    /\ ppc = [p \in Procs |-> "idle"]
    /\ ploc = [p \in Procs |-> NoPassLocals]
    /\ lastEmit = NoHash
    /\ dupEmit = FALSE
    /\ lastKill = "none"

SanitizeNext ==
    \/ \E p \in SeqProcs : PassStart(p, NoFindings)
    \/ \E p \in SeqProcs : PassAdviseFail(p)

SpecSanitize == InitSanitize /\ [][SanitizeNext]_vars

\* The end-to-end scenario: fresh memory, THRESHOLD 0.2 where the script reads
\* it from the environment, passes over new events that edit one file six
\* times, and replies that ask for the one nudge "b" with a score of 0.7 or 1.
ScenarioFindings == [NoFindings EXCEPT !.struggles = Struggles(6)]
ScenarioVerdicts ==
    {[NoVerdict EXCEPT !.should = TRUE, !.score = sc, !.body = "b", !.reason = Reason] :
        sc \in {7, 10}}

InitScenario ==
    /\ clock = StartClock
    /\ GateInit /\ ProjectInit /\ interval = 2 /\ cooldown = 2 /\ workerScript = "installed"
    /\ NudgeInit
    /\ variant \in Variants
    /\ threshold = (IF variant = "advanced" THEN 0 ELSE 2)
    /\ max_lines_total = DefaultMaxLines(variant)
    /\ max_events = DefaultMaxEvents(variant)
    /\ RichInit
    /\ transcript = <<>>
    /\ memFile = DefaultMemory
    /\ fs = OnDisk(memFile)
    /\ pendFile = NoPending
    /\ ppc = [p \in Procs |-> "idle"]
    /\ ploc = [p \in Procs |-> NoPassLocals]
    /\ lastEmit = NoHash
    /\ dupEmit = FALSE
    /\ lastKill = "none"

ScenarioNext ==
    \/ AppendEvent
    \/ \E p \in SeqProcs : PassStart(p, ScenarioFindings)
    \/ \E p \in SeqProcs : \E v \in ScenarioVerdicts : PassAdvise(p, v)
    \/ \E p \in SeqProcs : PassSaveMemBegin(p)
    \/ \E p \in SeqProcs : PassSaveMemEnd(p)
    \/ \E p \in SeqProcs : PassGateReject(p)
    \/ \E p \in SeqProcs : PassPendingBegin(p)
    \/ \E p \in SeqProcs : PassPendingEnd(p)
    \/ \E p \in SeqProcs : PassSaveHashBegin(p)
    \/ \E p \in SeqProcs : PassSaveHashEnd(p)
    \/ Tick

SpecScenario == InitScenario /\ [][ScenarioNext]_vars

\* The nudge gate under a threshold set through SIDEKICK_THRESHOLD (review line
\* 35, enhanced line 37) to 0 or to 0.2; the advanced worker fixes it to 0.
Thresholds == {0, 2}

InitThreshold ==
    /\ clock = StartClock
    /\ GateInit /\ ProjectInit /\ interval = 2 /\ cooldown = 2 /\ workerScript = "installed"
    /\ NudgeInit
    /\ variant \in Variants
    /\ threshold \in (IF variant = "advanced" THEN {0} ELSE Thresholds)
    /\ max_lines_total = DefaultMaxLines(variant)
    /\ max_events = DefaultMaxEvents(variant)
    /\ RichInit
    /\ transcript = <<>>
    /\ memFile = DefaultMemory
    /\ fs = OnDisk(memFile)
    /\ pendFile = NoPending
    /\ ppc = [p \in Procs |-> "idle"]
    /\ ploc = [p \in Procs |-> NoPassLocals]
    /\ lastEmit = NoHash
    /\ dupEmit = FALSE
    /\ lastKill = "none"

ThresholdNext ==
    \/ AppendEvent
    \/ \E p \in SeqProcs : PassStart(p, NoFindings)
    \/ \E p \in SeqProcs : \E v \in Verdicts : PassAdvise(p, v)
    \/ \E p \in SeqProcs : PassSaveMemBegin(p)
    \/ \E p \in SeqProcs : PassSaveMemEnd(p)
    \/ \E p \in SeqProcs : PassGateReject(p)
    \/ \E p \in SeqProcs : PassPendingBegin(p)
    \/ \E p \in SeqProcs : PassPendingEnd(p)
    \/ \E p \in SeqProcs : PassSaveHashBegin(p)
    \/ \E p \in SeqProcs : PassSaveHashEnd(p)
    \/ Tick

SpecThreshold == InitThreshold /\ [][ThresholdNext]_vars

\* One session that moves between the working directories of Paths: the
\* counter hook, the pass and the nudge hook run for the directory it is in.
ProjectsNext ==
    \/ \E h \in SeqProcs : (stateFile.count < MaxInputEvents /\ HookLoad(h, WellFormed))
    \/ \E h \in SeqProcs : HookCount(h)
    \/ \E h \in SeqProcs : HookDecide(h)
    \/ \E h \in SeqProcs : HookRecord(h)
    \/ (transcript = <<>> /\ AppendEvent)
    \/ \E p \in SeqProcs : PassStart(p, NoFindings)
    \/ \E p \in SeqProcs : \E v \in OverlapVerdicts : PassAdvise(p, v)
    \/ \E p \in SeqProcs : PassSaveMemBegin(p)
    \/ \E p \in SeqProcs : PassSaveMemEnd(p)
    \/ \E p \in SeqProcs : PassGateReject(p)
    \/ \E p \in SeqProcs : PassPendingBegin(p)
    \/ \E p \in SeqProcs : PassPendingEnd(p)
    \/ \E p \in SeqProcs : PassSaveHashBegin(p)
    \/ \E p \in SeqProcs : PassSaveHashEnd(p)
    \/ \E h \in SeqProcs : DeliverRead(h, WellFormed)
    \/ \E h \in SeqProcs : DeliverUnlink(h)
    \/ \E c \in Paths : SwitchProject(c)

InitProjects == InitNudge

SpecProjects == InitProjects /\ [][ProjectsNext]_vars

\* Whole passes that end without a nudge, one after the other, over every
\* transcript and every persisted watermark.
QuietVerdict == [NoVerdict EXCEPT !.reason = Reason]

ReplayNext ==
    \/ \E p \in SeqProcs : PassStart(p, NoFindings)
    \/ \E p \in SeqProcs : PassAdviseFail(p)
    \/ \E p \in SeqProcs : PassAdvise(p, QuietVerdict)
    \/ \E p \in SeqProcs : PassSaveMemBegin(p)
    \/ \E p \in SeqProcs : PassSaveMemEnd(p)
    \/ \E p \in SeqProcs : PassGateReject(p)

InitReplay == InitCursor

SpecReplay == InitReplay /\ [][ReplayNext]_vars

\* The memory lists over successive passes of the enhanced and the advanced
\* worker: every pass merges what its reader found and what the reply names.
ListsNext ==
    \/ AppendEvent
    \/ \E p \in SeqProcs : \E f \in Findings : PassStart(p, f)
    \/ \E p \in SeqProcs : \E v \in ListVerdicts : PassAdvise(p, v)
    \/ \E p \in SeqProcs : PassSaveMemBegin(p)
    \/ \E p \in SeqProcs : PassSaveMemEnd(p)
    \/ \E p \in SeqProcs : PassGateReject(p)
    \/ Tick

InitLists == InitNudge /\ variant \in {"enhanced", "advanced"}

SpecLists == InitLists /\ [][ListsNext]_vars


\* ------------------------------------------------- trigger gate: properties
\* A hook run that has exited (sys.exit(0), or the uncaught ZeroDivisionError).
Exited(h) == cpc[h] = "done"

\* The condition of line 71 written out, for a run with locals l.
GateCondition(l) ==
    /\ interval # 0
    /\ PyMod(l.count, interval) = 0
    /\ l.now - l.last_run >= cooldown

C2_LaunchesCooldownApart ==
    workerScript = "installed" =>
        \A i \in 1..(Len(launchLog) - 1) :
            launchLog[i + 1].at - launchLog[i].at >= cooldown

\* C3 as stated: in every state in which a pass has been spawned, the persisted
\* last_run already equals the time of the latest spawn.
C3_LastRunPersistedBeforeSpawn ==
    launchLog # <<>> => stateFile.last_run = launchLog[Len(launchLog)].at

\* C4 as stated: with INTERVAL <= 0 or COOLDOWN_S <= 0 every event fires the
\* pass and the hook exits with status 0 (checked for an installed worker).
C4_UnthrottledWhenMisconfigured ==
    \A h \in SeqProcs :
        (Exited(h) /\ workerScript = "installed" /\ (interval <= 0 \/ cooldown <= 0))
            => (cloc[h].launched /\ cloc[h].status = 0)


\* ---------------------------------------------- nudge gate: properties
\* The four conditions of the nudge gate for verdict v and the memory the pass
\* loaded: should_intervene, score >= threshold, non-empty stripped body, and a
\* body hash different from memory.last_nudge_hash.
NudgeGateCondition(v, mem) ==
    /\ v.should
    /\ v.score >= threshold
    /\ Strip(v.body) # ""
    /\ Sha256(Strip(v.body)) # mem.last_nudge_hash

\* C5 as stated: after a parseable verdict (the memory is saved, the gate is
\* next) the pass writes a pending record if and only if the four conditions
\* hold; otherwise it ends without touching the pending file.
C5_PendingIffGate ==
    \A p \in SeqProcs :
        ppc[p] = "memSaved" =>
            /\ ENABLED PassPendingBegin(p) <=> NudgeGateCondition(ploc[p].verdict, ploc[p].mem)
            /\ ENABLED PassGateReject(p) <=> ~NudgeGateCondition(ploc[p].verdict, ploc[p].mem)

\* C6 as stated: the hash is persisted before or together with the pending
\* record, so that whatever step a review or enhanced pass is killed at, no
\* later pass writes a pending record for the same body again.
C6_NoDuplicateAfterCrash ==
    variant \in {"review", "enhanced"} => ~dupEmit

\* C7 as stated: no pass of the review or the advanced worker writes a pending
\* record whose body hash equals that of the pending record written before it.
C7_NoConsecutiveDuplicates ==
    (variant \in {"review", "advanced"} /\ lastEmit # NoHash) => ~dupEmit

\* C8: review worker. A step of the pass taken after its memory save, other than
\* the rename that completes the pending write (a kill included), leaves the
\* pending file exactly as it was; and a completed pending write never carries
\* the body hash that the memory file holds at that moment.
C8_CrashSafeReview ==
    [][variant = "review" =>
        \A p \in SeqProcs :
            /\ (ppc[p] \in {"memSaved", "pendOpen"} /\ ppc'[p] # ppc[p] /\ ppc'[p] # "pendSaved")
                  => pendFile' = pendFile
            /\ (ppc[p] = "pendOpen" /\ ppc'[p] = "pendSaved")
                  => /\ pendFile'.state = "ok"
                     /\ Sha256(pendFile'.body) # load_json(memFile, DefaultMemory).last_nudge_hash
      ]_vars

\* C8 witness: a review pass was killed between its memory save and its pending
\* write, the earlier pending record is still whole with its hash in memory, and
\* the next pass holds a verdict with that same body at the gate.
C8_Witness ==
    /\ variant = "review"
    /\ lastKill = "window"
    /\ pendFile.state = "ok"
    /\ memFile.state = "ok" /\ memFile.last_nudge_hash = Sha256(pendFile.body)
    /\ ppc[1] = "memSaved"
    /\ ploc[1].verdict.should /\ ploc[1].verdict.score >= threshold
    /\ Strip(ploc[1].verdict.body) = pendFile.body

\* ------------------------------------------ nudge delivery: properties
\* C9 as stated: a finished nudge-hook run that found no record printed nothing;
\* one that found a record older than its ttl deleted it and printed nothing;
\* otherwise it deleted the record and printed it; so whatever was printed was
\* at most ttl old.
C9_DeliveryContract ==
    lastDelivery.finished =>
        /\ lastDelivery.seen = "absent" => ~lastDelivery.shown
        /\ (lastDelivery.seen = "ok" /\ lastDelivery.age > NUDGE_TTL)
              => (~lastDelivery.left /\ ~lastDelivery.shown)
        /\ (lastDelivery.seen = "ok" /\ lastDelivery.age <= NUDGE_TTL)
              => (~lastDelivery.left /\ lastDelivery.shown)
        /\ lastDelivery.shown => lastDelivery.age <= NUDGE_TTL

\* C10 as stated: a finished nudge-hook run that found a (complete) pending
\* record leaves no pending record behind, whatever its age and content.
C10_ConsumedOnEveryRead ==
    (lastDelivery.finished /\ lastDelivery.seen = "ok") => ~lastDelivery.left

\* C11 as stated: whatever the interleaving of nudge-hook runs and pending
\* writes, no hook run prints a pending record that an earlier or concurrent
\* hook run has already printed.
C11_AtMostOnceDelivery ==
    ~lastDelivery.again

\* ------------------------------------------------------ watermark: properties
\* The watermark a pass would load from memory.json.
Watermark(file) == load_json(file, DefaultMemory).last_timestamp

\* C12 as stated: no save of memory.json lowers the persisted watermark, for
\* overlapping passes and for events without a timestamp alike. A rename replaces
\* one complete version by another; an in-place save starts to overwrite a
\* complete version with the record the pass holds.
C12_WatermarkMonotonic ==
    [][/\ (memFile.state = "ok" /\ memFile'.state = "ok")
            => Watermark(memFile') >= Watermark(memFile)
       /\ \A p \in Procs :
            (memFile.state = "ok" /\ memFile'.state = "partial"
                /\ ppc[p] = "advised" /\ ppc'[p] = "memOpen")
            => ploc[p].mem.last_timestamp >= Watermark(memFile)
      ]_vars

\* C13 as stated: while a pass has not yet completed NudgeGate (its decision and
\* its pending write), the persisted watermark has not moved past the events
\* the pass is working on: they still read as new.
C13_WatermarkAfterFullPass ==
    \A p \in SeqProcs :
        ppc[p] \in {"ready", "advised", "memOpen", "memSaved", "pendOpen"}
            => Newer(Watermark(memFile)) # <<>>

\* ------------------------------------------------ reasoning call: properties
\* C14: a pass whose reasoning call fails, or whose reply holds no JSON object,
\* ends with memory.json (watermark included) and pending_feedback.json exactly
\* as they were, and the events it had read still read as new for the next pass.
C14_FailureLeavesStateUnchanged ==
    [][\A p \in SeqProcs :
          (ppc[p] = "ready" /\ ppc'[p] = "failed")
             => /\ memFile' = memFile
                /\ pendFile' = pendFile
                /\ Newer(Watermark(memFile))' = Newer(Watermark(memFile))
                /\ Newer(Watermark(memFile))' # <<>>
      ]_vars

\* C14 witness: a pass has ended on a failed call while an earlier pass's memory
\* and pending record are in place and a new event waits to be read.
C14_Witness ==
    /\ ppc[1] = "failed"
    /\ memFile.state = "ok" /\ memFile.last_timestamp > 0
    /\ pendFile.state = "ok"
    /\ Newer(Watermark(memFile)) # <<>>

\* C15: a pass calls the reasoning service at most once; after a Failure the
\* process has ended: no second call, no pending write and no other step of that
\* pass is possible, only the start of the next pass.
C15_SingleCallNoRetry ==
    \A p \in SeqProcs :
        /\ ploc[p].calls <= 1
        /\ ppc[p] = "failed" =>
              /\ ploc[p].calls = 1
              /\ ~ENABLED PassAdviseFail(p)
              /\ ~ENABLED (\E v \in Verdicts : PassAdvise(p, v))
              /\ ~ENABLED PassSaveMemBegin(p)
              /\ ~ENABLED PassPendingBegin(p)
              /\ ~ENABLED PassPendingEnd(p)

\* C15 witness: the advanced worker's pass has ended on a Failure after its one
\* call, with no pending record written.
C15_Witness ==
    /\ variant = "advanced"
    /\ ppc[1] = "failed" /\ ploc[1].calls = 1
    /\ pendFile.state = "absent" /\ lastEmit = NoHash

\* ------------------------------------------------ transcript cursor: properties
\* C16 as stated: with a watermark w, every event the cursor yields has a
\* timestamp strictly greater than w, and the yielded events are exactly the
\* events of the transcript that are strictly newer than w.
C16_YieldsStrictlyNewer ==
    \A p \in SeqProcs :
        (ppc[p] = "ready" /\ Watermark(memFile) # 0) =>
            LET w == Watermark(memFile)
                m == Newer(w)
            IN /\ \A i \in DOMAIN m : m[i] > w
               /\ m = SelectSeq(transcript, LAMBDA ts : ts > w)

\* C17 as stated: reading again with the timestamp of the last event of the
\* sequence just read as the watermark yields the empty sequence (that two reads
\* with one watermark agree holds by determinism of the function).
C17_WatermarkIdempotent ==
    \A p \in SeqProcs :
        ppc[p] = "ready" =>
            LET m == Newer(Watermark(memFile))
            IN Newer(m[Len(m)]) = <<>>

\* ------------------------------------------------- memory lists: properties
\* The documented cap of each bounded list.
CapOf(name) ==
    CASE name = "key_decisions" -> KEY_DECISIONS_CAP
      [] name = "technical_decisions" -> TECHNICAL_CAP
      [] name = "ai_insights" -> INSIGHTS_CAP
      [] OTHER -> FEATURE_CAP

\* The last k of the n entries appended to a list, in append order.
LastAppended(n, k) == [i \in 1..k |-> n - k + i]

\* C18 as stated: every bounded list of the persisted memory record is within
\* its cap.
C18_ListsWithinCap ==
    memFile.state = "ok" =>
        \A name \in ListNames : Len(memFile.lists[name].items) <= CapOf(name)

\* C19 as stated: every bounded list of the persisted memory record holds
\* exactly the last cap entries appended to it (all of them while fewer than cap
\* were appended), in append order.
C19_EvictionOldestFirst ==
    memFile.state = "ok" =>
        \A name \in ListNames :
            LET l == memFile.lists[name]
                k == IF l.n < CapOf(name) THEN l.n ELSE CapOf(name)
            IN l.items = LastAppended(l.n, k)

\* ------------------------------------------------- atomic writes: properties
\* C20 as stated: a reader never observes a partial record: no nudge-hook run
\* finds pending_feedback.json half-written, and memory.json and
\* pending_feedback.json are at no moment half-written on disk.
C20_ReadersSeeCompleteRecords ==
    /\ lastDelivery.seen # "partial"
    /\ memFile.state # "partial"
    /\ pendFile.state # "partial"

\* ------------------------------------------------- overlapping saves: properties
\* C21 as stated: when two passes overlapped and both saved the memory record,
\* then once both have finished memory.json holds the complete record written
\* by one of the save calls, never a mixture or a truncation.
C21_LastWriterWins ==
    (fs.overlap /\ fs.savers = Procs /\ \A p \in Procs : ppc[p] \in {"idle", "crashed"})
        => (memFile.state = "ok" /\ fs.target.bytes = Dumps(memFile))

\* ------------------------------------------------- hostile inputs: properties
\* C22 as stated: whatever stdin holds and whatever the state files hold, a
\* counter-hook run that has exited did so with status 0, and a nudge-hook run
\* that has exited did so with status 0 unless it displayed a nudge.
C22_HooksNeverFail ==
    /\ \A h \in SeqProcs : Exited(h) => cloc[h].status = 0
    /\ lastDelivery.finished =>
          (~lastDelivery.crashed /\ (lastDelivery.status = 0 \/ lastDelivery.shown))

\* C23 as stated: a pass that starts on an absent or corrupt memory.json works on
\* the documented default, and no content of memory.json makes the pass crash.
C23_LoadDefaultsNeverCrashes ==
    \A p \in SeqProcs :
        /\ ppc[p] # "crashed"
        /\ (ppc[p] = "ready" /\ memFile.state # "ok") =>
               ploc[p].mem = [DefaultMemory EXCEPT !.lists = ploc[p].mem.lists]

\* C24 as stated: a nudge-hook run that finds a corrupt pending record (not
\* JSON, or JSON that is not a pending record) ends without error, emits nothing
\* and leaves no corrupt record behind.
C24_CorruptPendingReplaced ==
    (lastDelivery.finished /\ lastDelivery.seen \in {"partial", "nonobject", "badttl", "badbody"})
        => (~lastDelivery.crashed /\ ~lastDelivery.shown /\ ~lastDelivery.left)

\* ------------------------------------------------- pending record: properties
\* The payload a pass at its pending write is writing (review lines 302-309).
PendingOf(p) ==
    [state |-> "ok", created_at |-> ploc[p].created, ttl |-> NUDGE_TTL,
     body |-> NudgeOf(ploc[p].verdict), reason |-> ploc[p].verdict.reason]

\* C25: the project has one pending record at most: the step that completes a
\* pending write leaves pending_feedback.json holding exactly the new payload,
\* whatever record, consumed or not, was in place before (and no record at all
\* when a nudge hook unlinked the file while it was being written in place).
C25_SinglePendingOverwritten ==
    [][\A p \in SeqProcs :
          (/\ ppc[p] = "pendOpen"
           /\ \/ ppc'[p] = "pendSaved"
              \/ (variant = "advanced" /\ ppc'[p] = "idle" /\ pendFile' # pendFile))
             => IF ploc[p].fd = "orphan" THEN pendFile' = NoPending
                ELSE pendFile' = PendingOf(p)
      ]_vars

\* C25 witness: the review worker has written the record for body "b" over the
\* record for body "a", which no nudge-hook run had looked at.
C25_Witness ==
    /\ variant = "review"
    /\ ppc[1] = "pendSaved"
    /\ pendFile.state = "ok" /\ pendFile.body = "b"
    /\ memFile.state = "ok" /\ memFile.last_nudge_hash = Sha256("a")
    /\ lastDelivery = NoDelivery

\* C26: the text the sanitizer returns never has more lines than
\* MAX_LINES_TOTAL, and when the assembled text has more lines than the cap
\* its last line is the marker that states how many lines were left out.
C26_SanitizedWithinCap ==
    \A p \in SeqProcs :
        (ppc[p] = "ready" /\ variant # "advanced") =>
            LET all == Assemble(MessagesToProcess(Newer(ploc[p].mem.last_timestamp)))
                out == ploc[p].sanitized
            IN /\ Len(out) <= max_lines_total
               /\ Len(all) > max_lines_total =>
                      out[Len(out)] = Marker(Len(all) - max_lines_total)

\* C27: in the end-to-end scenario every pass that has saved its memory has
\* recorded a struggling-feature entry for the file edited six times; the
\* first such pass goes on to write the pending record; and no pass writes a
\* pending record whose body repeats the one written before it.
C27_EndToEnd ==
    /\ \A p \in SeqProcs :
          ppc[p] = "memSaved" =>
             /\ memFile.state = "ok"
             /\ memFile.lists.struggling_features.items # <<>>
             /\ lastEmit = NoHash => ENABLED PassPendingBegin(p)
    /\ ~dupEmit

C30_WatermarkIsLastRead ==
    [][\A p \in SeqProcs :
          /\ (ppc[p] # "ready" /\ ppc'[p] = "ready") =>
                 LET msgs == Newer(Watermark(memFile))
                 IN ploc'[p].last_ts = msgs[Len(msgs)]
          /\ (ppc[p] = "memOpen" /\ ppc'[p] = "memSaved") =>
                 (memFile'.state = "ok" /\ memFile'.last_timestamp = ploc[p].last_ts)
      ]_vars

\* C31: when two passes of the review or the enhanced worker overlap, they do
\* not both write a pending record for the same nudge body.
C31_OverlapNoDoubleEmit ==
    \A p, q \in Procs :
        (p # q /\ ppc[p] = "pendSaved" /\ ppc[q] = "pendSaved")
            => NudgeOf(ploc[p].verdict) # NudgeOf(ploc[q].verdict)

\* The header lines "ROLE @ timestamp" of a sanitized text.
Headers(out) == {i \in DOMAIN out : \E ts \in Stamps : out[i] = Chunk(ts)[1]}

\* C32: the text the sanitizer returns holds at most MAX_EVENTS headers, for
\* every MAX_EVENTS from 0 on; with include_older (the enhanced worker) at most
\* 20 headers more, of older events.
C32_AtMostMaxEvents ==
    \A p \in SeqProcs :
        (ppc[p] = "ready" /\ variant # "advanced") =>
            Cardinality(Headers(ploc[p].sanitized))
                <= max_events + (IF variant = "enhanced" THEN 20 ELSE 0)


\* ------------------------------------------- rich memory: specifications
\* advanced lines 609-632 and 667-704: one pass that found new messages.  It
\* probes git, merges the new messages into the loaded memory and, when the
\* reply came and parsed, appends the rollback features of the reply and saves.
\* A KeyError of build_rich_memory ends the pass with a traceback and a call
\* that failed ends it silently: memory.json keeps what it held.
Replies == {"fail", "quiet", "rollback"}
AdvancedMerge(probes, commits, changes, count, summary, edit_count, has_tests, reply) ==
    /\ variant = "advanced"
    /\ rich.sessions < MaxSessions
    /\ LET g == get_git_context(probes, commits, changes, count)
           b == build_rich_memory(rich, summary, edit_count, g, has_tests)
       IN /\ adv' = [probes |-> probes, count |-> count, git_context |-> g,
                     has_tests |-> has_tests,
                     new_summary |-> summarize_messages(summary, SUMMARY_MAX),
                     raised |-> b.raised, memory |-> b.memory]
          /\ rich' = IF b.raised # "" \/ reply = "fail" THEN rich
                     ELSE IF reply = "rollback"
                          THEN [b.memory EXCEPT !.struggling_features = Append(@, "ai")]
                          ELSE b.memory
    /\ UNCHANGED <<clock, gateVars, nudgeVars>>
    /\ UNCHANGED <<variant, threshold, max_lines_total, max_events, transcript, memFile, fs,
                   pendFile, ppc, ploc, lastEmit, dupEmit, lastKill>>

\* advanced line 609: get_git_context alone, for every outcome of its probes.
GetGitContext(probes, commits, changes, count) ==
    /\ adv' = [adv EXCEPT !.probes = probes, !.count = count,
                          !.git_context = get_git_context(probes, commits, changes, count)]
    /\ UNCHANGED <<clock, gateVars, nudgeVars>>
    /\ UNCHANGED <<rich, variant, threshold, max_lines_total, max_events, transcript, memFile,
                   fs, pendFile, ppc, ploc, lastEmit, dupEmit, lastKill>>

Summaries == {<<>>, <<"e", "\n", "u", "u", "u", "u", "u">>}
MergeNext ==
    \E commits \in {<<>>, <<"c1">>},
       summary \in Summaries, edit_count \in {0, 6}, has_tests \in BOOLEAN,
       reply \in Replies :
        AdvancedMerge(<<"ok", "ok", "ok", "ok">>, commits, 0, 4, summary, edit_count, has_tests, reply)
InitMerge == InitNudge /\ variant = "advanced"
SpecMerge == InitMerge /\ [][MergeNext]_vars

GitNext ==
    \E probes \in [1..4 -> ProbeOutcomes], count \in 0..MaxCommits :
        GetGitContext(probes, <<"c1">>, 1, count)
SpecGit == InitMerge /\ [][GitNext]_vars


\* ------------------------------------------------- rich memory: properties
\* C33: after every merge of build_rich_memory, recent is the digest of the new
\* messages and is no longer than its cap, rolling is the session tag and that
\* digest and a newline followed by the rolling text of before, cut to its cap,
\* and historical is no longer than its cap and differs from the historical
\* text of before only when the new session counter is a multiple of 5.
C33_SummaryCascade ==
    [][(adv' # adv /\ adv'.raised = "") =>
          LET m == adv'.memory
          IN /\ m.sessions = rich.sessions + 1
             /\ m.recent = adv'.new_summary
             /\ Len(m.recent) <= SUMMARY_MAX
             /\ m.rolling = SliceTo(SessionTag(m.sessions) \o adv'.new_summary \o <<"\n">>
                                        \o rich.rolling, ROLLING_MAX)
             /\ Len(m.rolling) <= ROLLING_MAX
             /\ Len(m.historical) <= HISTORICAL_MAX
             /\ (m.historical # rich.historical => m.sessions % 5 = 0)
      ]_vars
C33_Witness ==
    /\ adv.raised = ""
    /\ adv.memory.sessions = 5
    /\ Len(adv.memory.recent) = SUMMARY_MAX
    /\ Len(adv.memory.rolling) = ROLLING_MAX
    /\ HasKeyword(adv.memory.historical)
    /\ rich = adv.memory


\* C34: every merge returns a memory whose recommendation list was computed
\* anew: it holds at most two entries, a rollback entry exactly when the memory
\* holds a struggling feature and git reported recent commits, and a testing
\* entry exactly when has_tests is false and the session counter exceeds 5.
C34_RecommendationsRecomputed ==
    LET m == adv.memory
        Has(kind) == \E i \in DOMAIN m.recommendations : m.recommendations[i] = kind
    IN adv.probes # <<>> =>
          /\ adv.raised = ""
          /\ Len(m.recommendations) <= 2
          /\ Has("rollback") <=> (m.struggling_features # <<>>
                                     /\ adv.git_context.recent_commits # <<>>)
          /\ Has("testing") <=> (~adv.has_tests /\ m.sessions > 5)


C36_VerdictPersistsWatermark ==
    [][\A p \in SeqProcs :
          LET v == ploc[p].verdict
              GatedOut == \/ ~v.should
                          \/ v.score < threshold
                          \/ NudgeOf(v) = ""
                          \/ NudgeHash(NudgeOf(v)) = ploc[p].mem.last_nudge_hash
          IN
          /\ (ppc[p] = "ready" /\ ppc'[p] = "advised") =>
                 ploc'[p].mem.last_timestamp > Watermark(memFile)
          /\ (ppc[p] = "memOpen" /\ ppc'[p] = "memSaved") =>
                 /\ memFile'.state = "ok"
                 /\ memFile'.last_timestamp = ploc[p].mem.last_timestamp
          /\ (/\ ppc[p] = "memSaved" /\ ppc'[p] # "memSaved"
              /\ GatedOut) =>
                 /\ ppc'[p] = "idle"
                 /\ pendFile' = pendFile
                 /\ memFile' = memFile
      ]_vars


\* ------------------------------------------------- idle passes: specification
NoopNext ==
    \/ AppendEvent
    \/ \E p \in SeqProcs : PassNoop(p)
    \/ \E p \in SeqProcs : PassStart(p, NoFindings)
    \/ \E p \in SeqProcs : PassAdviseFail(p)
    \/ \E p \in SeqProcs : \E v \in Verdicts : PassAdvise(p, v)
    \/ \E p \in SeqProcs : PassSaveMemBegin(p)
    \/ \E p \in SeqProcs : PassSaveMemEnd(p)
    \/ \E p \in SeqProcs : PassGateReject(p)
    \/ \E p \in SeqProcs : PassPendingBegin(p)
    \/ \E p \in SeqProcs : PassPendingEnd(p)
    \/ \E p \in SeqProcs : PassSaveHashBegin(p)
    \/ \E p \in SeqProcs : PassSaveHashEnd(p)
    \/ Tick
SpecNoop == InitThreshold /\ [][NoopNext]_vars

\* C37: a pass that finds no transcript, or no event beyond the watermark, does
\* nothing: it never calls the reasoning service, and memory.json (watermark,
\* session counter, lists) and the pending record are as they were.
C37_IdlePassIsNoop ==
    [][\A p \in SeqProcs :
          (ppc'[p] = "noop" /\ ppc[p] # "noop") =>
              /\ Newer(Watermark(memFile)) = <<>>
              /\ ploc'[p].calls = 0
              /\ memFile' = memFile
              /\ fs' = fs
              /\ rich' = rich
              /\ pendFile' = pendFile
      ]_vars
C37_Witness ==
    /\ ppc[1] = "noop"
    /\ transcript # <<>>
    /\ memFile.state = "ok" /\ memFile.last_timestamp = transcript[Len(transcript)]
    /\ pendFile.state = "ok"


\* ------------------------------------------ concurrent hook runs: specification
\* Two runs of the counter hook for one project, their steps interleaved (the
\* host starts the hook once per tool use and does not wait for an earlier run).
RaceNext ==
    \/ \E h \in Procs : (nCounted < MaxRaceRuns /\ HookLoad(h, WellFormed))
    \/ \E h \in Procs : HookCount(h)
    \/ \E h \in Procs : HookDecide(h)
    \/ \E h \in Procs : HookRecord(h)
    \/ Tick
InitRace == InitGate /\ interval \in {1, 2} /\ cooldown = 2 /\ workerScript = "installed"
SpecRace == InitRace /\ [][RaceNext]_vars

\* C38: however two runs of the counter hook interleave, once they have ended
\* the persisted counter has grown by the number of runs, and no two launches
\* of the background pass are less than COOLDOWN_S apart.
C38_ConcurrentGateExact ==
    /\ (\A h \in Procs : cpc[h] \in {"idle", "done"}) => stateFile.count = nCounted
    /\ \A i, j \in DOMAIN launchLog :
          i < j => launchLog[j].at - launchLog[i].at >= cooldown


\* ------------------------------------------------- skipped events: properties
\* C39: no event is skipped.  An event appended with a timestamp that is not
\* below those before it, the stored watermark included, is beyond the cursor:
\* the message list of a pass that starts after the append holds it, so the
\* list grows by that event with every append.
C39_NoEventSkipped ==
    [][Len(transcript') = Len(transcript) + 1 =>
          Len(Newer(Watermark(memFile)))' = Len(Newer(Watermark(memFile))) + 1
      ]_vars


=============================================================================
